---- MODULE Spec2Model ----
(***************************************************************************)
(* The per-connection session of the JODC terminal interface: the          *)
(* bubbletea Model of src/main.go, its Update handler, the key bindings    *)
(* of src/keybinds.go and the bubbles viewport the handler drives.         *)
(*                                                                         *)
(* A Go string is a sequence of characters; a character is a TLA+ string   *)
(* token, the newline being NL.  A panic inside Update ends the session    *)
(* and discards the handler's partial writes (Update has a value           *)
(* receiver: it works on a copy of the Model).                             *)
(***************************************************************************)
EXTENDS Integers, Sequences, FiniteSets, TLC

\* ------------------------------------------------------------------ bounds
MaxDocs == 2
MaxFileLines == 4
MaxHeight == 6
MaxWidth == 5

\* --------------------------------------------------------------- constants
fileListView == 0
fileContentView == 1
StripLines == 2
MouseWheelDelta == 3
HeaderHeight == 1
FooterHeight == 2

NL == "\n"
ErrReadingFile == <<"Error reading file">>
ErrParsingMarkdown == <<"Error parsing markdown">>

AllNames == <<"a.md", "b.md", "c.md", "d.md">>
Widths == {MaxWidth \div 2, MaxWidth}
Heights == {0, MaxHeight - 1, MaxHeight}

\* ------------------------------------------------------------- Go helpers
Max(a, b) == IF a > b THEN a ELSE b
Min(a, b) == IF a < b THEN a ELSE b

\* Go integer division truncates toward zero
GoDiv(a, b) == IF a >= 0 THEN a \div b ELSE -((-a) \div b)

\* strings.Split(s, "\n"): always at least one segment
RECURSIVE StringsSplit(_)
StringsSplit(s) ==
  IF s = <<>> THEN << <<>> >>
  ELSE LET rest == StringsSplit(Tail(s)) IN
       IF Head(s) = NL THEN << <<>> >> \o rest
       ELSE << <<Head(s)>> \o Head(rest) >> \o Tail(rest)

\* strings.Join(ls, "\n")
RECURSIVE StringsJoin(_)
StringsJoin(ls) ==
  IF ls = <<>> THEN <<>>
  ELSE IF Len(ls) = 1 THEN ls[1]
  ELSE ls[1] \o <<NL>> \o StringsJoin(Tail(ls))

\* ls[n:] on a Go slice; the caller checks n <= len(ls)
SliceFrom(ls, n) == SubSeq(ls, n + 1, Len(ls))

\* ------------------------------------------------------- external content
\* a document file of n newline-separated segments
FileText(name, n) ==
  StringsJoin([i \in 1..n |-> <<name \o "#" \o ToString(i)>>])

\* os.ReadFile: an error, or the bytes of the file
ReadOutcomes(name) ==
  {[err |-> TRUE, content |-> <<>>]} \cup
  {[err |-> FALSE, content |-> <<>>]} \cup
  {[err |-> FALSE, content |-> FileText(name, n)] : n \in 1..MaxFileLines}

\* glamour.Render(text, "dark"): the styled text framed by blank lines, or
\* the empty string and an error
GlamourRender(text, fails) ==
  IF fails THEN [err |-> TRUE, out |-> <<>>]
  ELSE [err |-> FALSE,
        out |-> <<NL>> \o [i \in 1..Len(text) |->
                   IF text[i] = NL THEN NL ELSE "*" \o text[i]] \o <<NL>>]

\* ------------------------------------------------------ bubbles viewport
\* the zero viewport.Model of a freshly constructed Model
ZeroViewport == [Width |-> 0, Height |-> 0, YOffset |-> 0, YPosition |-> 0,
                 lines |-> <<>>]

ViewportNew(w, h) == [Width |-> w, Height |-> h, YOffset |-> 0,
                      YPosition |-> 0, lines |-> <<>>]

clamp(v, low, high) ==
  LET lo == IF high < low THEN high ELSE low
      hi == IF high < low THEN low ELSE high
  IN Min(hi, Max(lo, v))

maxYOffset(vp) == Max(0, Len(vp.lines) - vp.Height)
AtTop(vp) == vp.YOffset <= 0
AtBottom(vp) == vp.YOffset >= maxYOffset(vp)

SetYOffset(vp, n) == [vp EXCEPT !.YOffset = clamp(n, 0, maxYOffset(vp))]

GotoTop(vp) == IF AtTop(vp) THEN vp ELSE SetYOffset(vp, 0)
GotoBottom(vp) == SetYOffset(vp, maxYOffset(vp))

SetContent(vp, s) ==
  LET v == [vp EXCEPT !.lines = StringsSplit(s)] IN
  IF v.YOffset > Len(v.lines) - 1 THEN GotoBottom(v) ELSE v

LineDown(vp, n) ==
  IF AtBottom(vp) \/ n = 0 \/ Len(vp.lines) = 0 THEN vp
  ELSE SetYOffset(vp, vp.YOffset + n)

LineUp(vp, n) ==
  IF AtTop(vp) \/ n = 0 \/ Len(vp.lines) = 0 THEN vp
  ELSE SetYOffset(vp, vp.YOffset - n)

ViewDown(vp) == IF AtBottom(vp) THEN vp ELSE LineDown(vp, vp.Height)
ViewUp(vp) == IF AtTop(vp) THEN vp ELSE LineUp(vp, vp.Height)
HalfViewDown(vp) ==
  IF AtBottom(vp) THEN vp ELSE LineDown(vp, GoDiv(vp.Height, 2))
HalfViewUp(vp) ==
  IF AtTop(vp) THEN vp ELSE LineUp(vp, GoDiv(vp.Height, 2))

\* viewport.Model.ScrollPercent, a float64 in Go, as the fraction num/den
\* with den > 0.  It is 1 whenever Height >= len(lines), in every release
\* of the library; below that the quotient is taken over len(lines) -
\* Height (older releases: over len(lines) - 1 - Height).
ScrollPercent(vp) ==
  IF vp.Height >= Len(vp.lines) THEN [num |-> 1, den |-> 1]
  ELSE LET d == Len(vp.lines) - vp.Height IN
       [num |-> Max(0, Min(d, vp.YOffset)), den |-> d]

\* fmt.Sprintf("%3.f", x) for x = n/d >= 0: the nearest integer, a tie
\* going to the even one
RoundHalfEven(n, d) ==
  LET q == n \div d
      r == n % d
  IN IF 2 * r < d THEN q
     ELSE IF 2 * r > d THEN q + 1
     ELSE IF q % 2 = 0 THEN q ELSE q + 1

\* float64(n)/float64(d)*100 for 0 <= n <= d is within a few units in the
\* last place of 100n/d, so it rounds as the exact quotient does unless
\* 100n/d = q + 1/2.  The quotient is then (2q+1)/200 and the double
\* product is q + 1/2 exactly, but for two values of q: it lies above the
\* tie for 109/200 and below it for 115/200.
Float64TieAbove == {54}
Float64TieBelow == {57}

\* fmt.Sprintf("%3.f", p*100) for the float64 p = n/d in [0, 1]
FormatPercent(n, d) ==
  LET q == (100 * n) \div d
      r == (100 * n) % d
  IN IF 2 * r = d /\ q \in Float64TieAbove THEN q + 1
     ELSE IF 2 * r = d /\ q \in Float64TieBelow THEN q
     ELSE RoundHalfEven(100 * n, d)

\* the number FooterView prints before the "%" sign
FooterPercent(vp) ==
  FormatPercent(ScrollPercent(vp).num, ScrollPercent(vp).den)

\* the viewport's own key map (viewport.DefaultKeyMap)
vpPageDown == {"pgdown", " ", "f"}
vpPageUp == {"pgup", "b"}
vpHalfPageUp == {"u", "ctrl+u"}
vpHalfPageDown == {"d", "ctrl+d"}
vpDown == {"down", "j"}
vpUp == {"up", "k"}


KeyMsg(k) == [type |-> "KeyMsg", key |-> k]
MouseMsg(b) == [type |-> "MouseMsg", key |-> b]
WindowSizeMsg == [type |-> "WindowSizeMsg", key |-> ""]
QuitMsg == [type |-> "QuitMsg", key |-> ""]
NoMsg == [type |-> "", key |-> ""]
NoSetup == [done |-> FALSE, active |-> FALSE, listErr |-> FALSE,
            catErr |-> FALSE, qrErr |-> FALSE]
NoEnter == [cursor |-> 0, read |-> "none", renderErr |-> FALSE]

\* viewport.Model.Update: scrolling keys and the mouse wheel; a
\* WindowSizeMsg is not handled by the viewport
ViewportUpdate(vp, msg) ==
  IF msg.type = "KeyMsg" THEN
    CASE msg.key \in vpPageDown -> ViewDown(vp)
      [] msg.key \in vpPageUp -> ViewUp(vp)
      [] msg.key \in vpHalfPageDown -> HalfViewDown(vp)
      [] msg.key \in vpHalfPageUp -> HalfViewUp(vp)
      [] msg.key \in vpDown -> LineDown(vp, 1)
      [] msg.key \in vpUp -> LineUp(vp, 1)
      [] OTHER -> vp
  ELSE IF msg.type = "MouseMsg" THEN
    CASE msg.key = "wheel up" -> LineUp(vp, MouseWheelDelta)
      [] msg.key = "wheel down" -> LineDown(vp, MouseWheelDelta)
      [] OTHER -> vp
  ELSE vp

\* ------------------------------------------------------------ key bindings
keysUp == {"up", "k"}
keysDown == {"down", "j"}
keysQuit == {"q", "ctrl+c"}
keysBack == {"esc"}
keysEnter == {"enter"}
\* Update matches m.keys.Top, which keybinds.go does not declare
keysTop == {"home"}

\* the keys a terminal sends in this model: every bound key, the viewport's
\* paging keys and one key nothing binds
Keys == keysUp \cup keysDown \cup keysQuit \cup keysBack \cup keysEnter
          \cup keysTop \cup {"pgdown", "pgup", "d", "u", "x"}
MouseButtons == {"wheel up", "wheel down"}

\* the switch of Update over a tea.KeyMsg: the first matching case wins
KeyCase(k) ==
  IF k \in keysQuit THEN "Quit"
  ELSE IF k \in keysUp THEN "Up"
  ELSE IF k \in keysDown THEN "Down"
  ELSE IF k \in keysTop THEN "Top"
  ELSE IF k \in keysEnter THEN "Enter"
  ELSE IF k \in keysBack THEN "Back"
  ELSE "none"

\* ------------------------------------------------------------------- state
VARIABLES
  session,           \* "connecting", "fatal", "running", "quitting" (Update
                     \* returned tea.Quit, the program still runs), "quit",
                     \* "panicked" or "closed"
  fatalMsg,          \* what wish.Fatalln wrote to the connection
  setup,             \* history: what teaHandler's setup steps returned
  server,            \* the sessions of two connections served side by side
  window,            \* the terminal's geometry as the connection reports it
  fileNames, cursor, ready, viewport, currentView, selectedFileName,
  fileContent, terminalHeight, helpWidth,
  lastMsg,           \* history: the message the last Update received
  lastEnter          \* history: the last Enter handled in the list view, its
                     \* cursor and what the read and the render returned

vars == <<session, fatalMsg, setup, server, window, fileNames, cursor, ready, viewport,
          currentView, selectedFileName, fileContent, terminalHeight,
          helpWidth, lastMsg, lastEnter>>

modelVars == <<fileNames, cursor, ready, viewport, currentView,
               selectedFileName, fileContent, terminalHeight, helpWidth>>

\* Go slices are indexed from 0
Index(s, i) == s[i + 1]

\* the session states in which the program's event loop runs
LiveStates == {"running", "quitting"}
Live == session \in LiveStates

\* the geometry the connection reports when it opens
InitWindow == [Width |-> MaxWidth, Height |-> MaxHeight]

Listings == {SubSeq(AllNames, 1, n) : n \in 0..MaxDocs}

\* the connections of the two-session specification
SessionIds == {"s1", "s2"}

\* the Model of a connection teaHandler has not run for yet
ZeroModel ==
  [session |-> "connecting", fileNames |-> <<>>, cursor |-> 0,
   ready |-> FALSE, viewport |-> ZeroViewport, currentView |-> fileListView,
   selectedFileName |-> "", fileContent |-> <<>>, terminalHeight |-> 0,
   helpWidth |-> 0]

\* the connection whose events the single-session program is fed as well,
\* on its own
Tracked == "s1"

\* status: "serving", "stopping" (main is in s.Shutdown: no connection is
\* accepted, the sessions the server has still run) or "stopped" (main has
\* returned); sessions: the Model of each connection the server accepted,
\* "connecting" while its teaHandler has not returned; actor (history):
\* the connection whose event was handled last
IdleServer ==
  [status |-> "serving",
   sessions |-> [i \in SessionIds |-> ZeroModel],
   actor |-> ""]

Init ==
  /\ session = "connecting"
  /\ fatalMsg = ""
  /\ setup = NoSetup
  /\ server = IdleServer
  /\ window = InitWindow
  /\ fileNames = <<>>
  /\ cursor = 0
  /\ ready = FALSE
  /\ viewport = ZeroViewport
  /\ currentView = fileListView
  /\ selectedFileName = ""
  /\ fileContent = <<>>
  /\ terminalHeight = 0
  /\ helpWidth = 0
  /\ lastMsg = NoMsg
  /\ lastEnter = NoEnter

\* --------------------------------------------------------------- teaHandler
\* mutant: a failing qrencode call is not treated as fatal
SetupErrorIgnoresQr(active, listErr, catErr, qrErr) ==
  IF ~active THEN "no active terminal, skipping"
  ELSE IF listErr THEN "can't read directory"
  ELSE IF catErr THEN "failed to run catimg"
  ELSE ""

\* the message of the first failing setup step, "" when all succeed
SetupError(active, listErr, catErr, qrErr) ==
  IF ~active THEN "no active terminal, skipping"
  ELSE IF listErr THEN "can't read directory"
  ELSE IF catErr THEN "failed to run catimg"
  ELSE IF qrErr THEN "failed to run qrencode"
  ELSE ""

teaHandler ==
  /\ session = "connecting"
  /\ \E active \in BOOLEAN, listErr \in BOOLEAN, catErr \in BOOLEAN,
        qrErr \in BOOLEAN, names \in Listings :
       LET e == SetupError(active, listErr, catErr, qrErr) IN
       /\ setup' = [done |-> TRUE, active |-> active, listErr |-> listErr,
                    catErr |-> catErr, qrErr |-> qrErr]
       /\ IF e # "" THEN
            /\ session' = "fatal"
            /\ fatalMsg' = e
            /\ UNCHANGED <<fileNames, terminalHeight>>
          ELSE
            /\ session' = "running"
            /\ fileNames' = names
            /\ terminalHeight' = window.Height
            /\ UNCHANGED fatalMsg
  /\ UNCHANGED <<window, cursor, ready, viewport, currentView,
                 selectedFileName, fileContent, helpWidth, lastMsg,
                 lastEnter>>

\* ------------------------------------------------------------ Model.Update
\* a panic in Update: the program stops, the Model keeps its last value
Panic(msg, c, readResult) ==
  /\ session' = "panicked"
  /\ lastMsg' = msg
  /\ lastEnter' = [cursor |-> c, read |-> readResult, renderErr |-> FALSE]
  /\ UNCHANGED <<fatalMsg, setup, window>>
  /\ UNCHANGED modelVars

\* case m.keys.Quit: return m, tea.Quit.  Update only returns the command;
\* the program runs on until the command's message reaches the event loop
UpdateQuit ==
  /\ Live
  /\ \E k \in Keys :
       /\ KeyCase(k) = "Quit"
       /\ lastMsg' = KeyMsg(k)
  /\ session' = "quitting"
  /\ UNCHANGED <<fatalMsg, setup, window, lastEnter>>
  /\ UNCHANGED modelVars

\* mutant: Up moves the cursor in the content view too
CursorUpAnyView(c, view) ==
  IF c > 0 THEN c - 1 ELSE c

CursorUp(c, view) ==
  IF c > 0 /\ view = fileListView THEN c - 1 ELSE c

\* mutant: Down does not stop at the last document
CursorDownNoBound(c, n, view) ==
  IF view = fileListView THEN c + 1 ELSE c

\* mutant: Down moves the cursor in the content view too
CursorDownAnyView(c, n, view) ==
  IF c < n - 1 THEN c + 1 ELSE c

CursorDown(c, n, view) ==
  IF c < n - 1 /\ view = fileListView THEN c + 1 ELSE c

\* case m.keys.Up
UpdateUp ==
  /\ Live
  /\ \E k \in Keys :
       /\ KeyCase(k) = "Up"
       /\ lastMsg' = KeyMsg(k)
       /\ cursor' = CursorUp(cursor, currentView)
       /\ viewport' = ViewportUpdate(viewport, KeyMsg(k))
  /\ UNCHANGED <<session, fatalMsg, setup, window, lastEnter, fileNames, ready,
                 currentView, selectedFileName, fileContent, terminalHeight,
                 helpWidth>>

\* case m.keys.Down
UpdateDown ==
  /\ Live
  /\ \E k \in Keys :
       /\ KeyCase(k) = "Down"
       /\ lastMsg' = KeyMsg(k)
       /\ cursor' = CursorDown(cursor, Len(fileNames), currentView)
       /\ viewport' = ViewportUpdate(viewport, KeyMsg(k))
  /\ UNCHANGED <<session, fatalMsg, setup, window, lastEnter, fileNames, ready,
                 currentView, selectedFileName, fileContent, terminalHeight,
                 helpWidth>>

\* case m.keys.Top
UpdateTop ==
  /\ Live
  /\ \E k \in Keys :
       /\ KeyCase(k) = "Top"
       /\ lastMsg' = KeyMsg(k)
       /\ viewport' = ViewportUpdate(GotoTop(viewport), KeyMsg(k))
  /\ UNCHANGED <<session, fatalMsg, setup, window, lastEnter, fileNames, cursor,
                 ready, currentView, selectedFileName, fileContent,
                 terminalHeight, helpWidth>>

\* selectedFile := m.fileNames[m.cursor] is an index out of range
IndexPanics(names, c) == c < 0 \/ c >= Len(names)

\* strings.Split(fileContent, "\n")[2:] is a slice bound out of range
SlicePanics(read) ==
  ~read.err /\ Len(StringsSplit(read.content)) < StripLines

\* mutant: a failed read leaves the content empty
EnterFileContentNoPlaceholder(read) ==
  IF read.err THEN <<>>
  ELSE StringsJoin(SliceFrom(StringsSplit(read.content), StripLines))

\* m.fileContent after the read
EnterFileContent(read) ==
  IF read.err THEN ErrReadingFile
  ELSE StringsJoin(SliceFrom(StringsSplit(read.content), StripLines))

\* m.selectedFileName after the read
EnterSelectedFileName(read, selectedFile, old) ==
  IF read.err THEN old ELSE selectedFile

\* the viewport after the render, both SetContent calls and GotoTop
EnterViewport(vp, content, fails) ==
  LET r == GlamourRender(content, fails)
      v1 == IF r.err THEN SetContent(vp, ErrParsingMarkdown) ELSE vp
      v2 == SetContent(v1, r.out)
  IN GotoTop(v2)

\* case m.keys.Enter
UpdateEnter ==
  /\ Live
  /\ \E k \in Keys :
       /\ KeyCase(k) = "Enter"
       /\ IF currentView # fileListView THEN
            /\ viewport' = ViewportUpdate(viewport, KeyMsg(k))
            /\ lastMsg' = KeyMsg(k)
            /\ UNCHANGED <<session, fatalMsg, setup, window, lastEnter, fileNames,
                           cursor, ready, currentView, selectedFileName,
                           fileContent, terminalHeight, helpWidth>>
          ELSE IF IndexPanics(fileNames, cursor) THEN Panic(KeyMsg(k), cursor, "none")
          ELSE \E read \in ReadOutcomes(Index(fileNames, cursor)),
                  fails \in BOOLEAN :
            IF SlicePanics(read) THEN Panic(KeyMsg(k), cursor, "ok")
            ELSE
              /\ fileContent' = EnterFileContent(read)
              /\ selectedFileName' =
                   EnterSelectedFileName(read, Index(fileNames, cursor),
                                         selectedFileName)
              /\ currentView' = fileContentView
              /\ viewport' =
                   ViewportUpdate(
                     EnterViewport(viewport, EnterFileContent(read), fails),
                     KeyMsg(k))
              /\ lastMsg' = KeyMsg(k)
              /\ lastEnter' =
                   [cursor |-> cursor,
                    read |-> IF read.err THEN "error" ELSE "ok",
                    renderErr |-> fails]
              /\ UNCHANGED <<session, fatalMsg, setup, window, fileNames, cursor,
                             ready, terminalHeight, helpWidth>>

BackView(view) == IF view = fileContentView THEN fileListView ELSE view
\* mutant: Back leaves the viewport where it was scrolled
BackViewportNoTop(vp, view) == vp

BackViewport(vp, view) == IF view = fileContentView THEN GotoTop(vp) ELSE vp

\* case m.keys.Back
UpdateBack ==
  /\ Live
  /\ \E k \in Keys :
       /\ KeyCase(k) = "Back"
       /\ lastMsg' = KeyMsg(k)
       /\ currentView' = BackView(currentView)
       /\ viewport' =
            ViewportUpdate(BackViewport(viewport, currentView), KeyMsg(k))
  /\ UNCHANGED <<session, fatalMsg, setup, window, lastEnter, fileNames, cursor,
                 ready, selectedFileName, fileContent, terminalHeight,
                 helpWidth>>

\* a key no case of the switch matches, and a mouse message: only the
\* viewport sees them
UpdateOther ==
  /\ Live
  /\ \E msg \in {KeyMsg(k) : k \in {x \in Keys : KeyCase(x) = "none"}}
                  \cup {MouseMsg(b) : b \in MouseButtons} :
       /\ lastMsg' = msg
       /\ viewport' = ViewportUpdate(viewport, msg)
  /\ UNCHANGED <<session, fatalMsg, setup, window, lastEnter, fileNames, cursor,
                 ready, currentView, selectedFileName, fileContent,
                 terminalHeight, helpWidth>>

\* lipgloss.Height(m.HeaderView()) and lipgloss.Height(m.FooterView()): the
\* header is one line, the footer the help line and the rule line
headerHeight == HeaderHeight
footerHeight == FooterHeight
verticalMarginHeight == headerHeight + footerHeight

\* mutant: a Resize of a ready viewport updates the height only
ResizeViewportHeightOnly(vp, isReady, w, h) ==
  IF ~isReady
  THEN [ViewportNew(w, h - verticalMarginHeight)
          EXCEPT !.YPosition = headerHeight]
  ELSE [vp EXCEPT !.Height = h - verticalMarginHeight]

\* mutant: a Resize of a ready viewport updates the width only
ResizeViewportWidthOnly(vp, isReady, w, h) ==
  IF ~isReady
  THEN [ViewportNew(w, h - verticalMarginHeight)
          EXCEPT !.YPosition = headerHeight]
  ELSE [vp EXCEPT !.Width = w]

ResizeViewport(vp, isReady, w, h) ==
  IF ~isReady
  THEN [ViewportNew(w, h - verticalMarginHeight)
          EXCEPT !.YPosition = headerHeight]
  ELSE [vp EXCEPT !.Width = w, !.Height = h - verticalMarginHeight]

\* mutant: a Resize sizes the viewport and never marks the Model ready
UpdateWindowSizeNeverReady ==
  /\ Live
  /\ \E w \in Widths, h \in Heights :
       /\ window' = [Width |-> w, Height |-> h]
       /\ helpWidth' = w
       /\ viewport' =
            ViewportUpdate(ResizeViewport(viewport, ready, w, h),
                           WindowSizeMsg)
  /\ lastMsg' = WindowSizeMsg
  /\ UNCHANGED <<session, fatalMsg, setup, lastEnter, fileNames, cursor, ready,
                 currentView, selectedFileName, fileContent, terminalHeight>>

\* case tea.WindowSizeMsg
UpdateWindowSize ==
  /\ Live
  /\ \E w \in Widths, h \in Heights :
       /\ window' = [Width |-> w, Height |-> h]
       /\ helpWidth' = w
       /\ viewport' =
            ViewportUpdate(ResizeViewport(viewport, ready, w, h),
                           WindowSizeMsg)
  /\ ready' = TRUE
  /\ lastMsg' = WindowSizeMsg
  /\ UNCHANGED <<session, fatalMsg, setup, lastEnter, fileNames, cursor,
                 currentView, selectedFileName, fileContent, terminalHeight>>

\* ------------------------------------------------- HeaderView, FooterView
\* lipgloss.Width of a one-line ASCII string: its number of columns
DisplayWidth(str) == Len(str)

\* lipgloss.Width(components.HeaderStyle.Render(name)): the name's columns
TitleWidth(name) == DisplayWidth(name)

\* the number of decimal digits of n >= 0
RECURSIVE Digits(_)
Digits(n) == IF n < 10 THEN 1 ELSE 1 + Digits(n \div 10)

\* lipgloss.Width(components.FooterStyle.Render(fmt.Sprintf("%3.f%%", p))):
\* the number padded to three columns and the "%" sign
InfoWidth(vp) == Max(3, Digits(FooterPercent(vp))) + 1

\* HeaderView: the title and the rule that pads it to the viewport's width
HeaderView(name, vp) ==
  [title |-> TitleWidth(name), line |-> Max(0, vp.Width - TitleWidth(name))]

\* the second line of FooterView: the rule and the percentage
FooterInfo(vp) ==
  [line |-> Max(0, vp.Width - InfoWidth(vp)), info |-> InfoWidth(vp)]

\* lipgloss.Width of lipgloss.JoinHorizontal over one-line blocks
HeaderViewWidth(name, vp) ==
  HeaderView(name, vp).title + HeaderView(name, vp).line
FooterInfoWidth(vp) == FooterInfo(vp).line + FooterInfo(vp).info

\* the message of the tea.Quit command reaches the event loop: the program
\* returns without calling Update
QuitDelivered ==
  /\ session = "quitting"
  /\ session' = "quit"
  /\ lastMsg' = QuitMsg
  /\ UNCHANGED <<fatalMsg, setup, window, lastEnter>>
  /\ UNCHANGED modelVars

\* the client disconnects, or main stops the server after a signal: the
\* program ends whatever it was showing
SessionClosed ==
  /\ Live
  /\ session' = "closed"
  /\ lastMsg' = NoMsg
  /\ UNCHANGED <<fatalMsg, setup, window, lastEnter>>
  /\ UNCHANGED modelVars

\* one session on its own: every step leaves the record of the two-session
\* specification alone
Next ==
  \/ teaHandler /\ UNCHANGED server
  \/ UpdateQuit /\ UNCHANGED server
  \/ UpdateUp /\ UNCHANGED server
  \/ UpdateDown /\ UNCHANGED server
  \/ UpdateTop /\ UNCHANGED server
  \/ UpdateEnter /\ UNCHANGED server
  \/ UpdateBack /\ UNCHANGED server
  \/ UpdateOther /\ UNCHANGED server
  \/ UpdateWindowSize /\ UNCHANGED server
  \/ QuitDelivered /\ UNCHANGED server
  \/ SessionClosed /\ UNCHANGED server

Spec == Init /\ [][Next]_vars

\* ------------------------------------------------- two sessions side by side
\* Model.Update as a function of the Model it is called on: the receiver is
\* a value, the result is the Model the program keeps for that session. env
\* holds what the call reads from outside the Model: the outcome of
\* os.ReadFile, whether the render fails and the size a resize carries.
ModelUpdate(m, msg, env) ==
  LET c == IF msg.type = "KeyMsg" THEN KeyCase(msg.key) ELSE "none" IN
  IF msg.type = "WindowSizeMsg" THEN
    [m EXCEPT !.helpWidth = env.w,
              !.ready = TRUE,
              !.viewport =
                ViewportUpdate(ResizeViewport(m.viewport, m.ready, env.w,
                                              env.h), msg)]
  ELSE IF c = "Quit" THEN [m EXCEPT !.session = "quitting"]
  ELSE IF c = "Up" THEN
    [m EXCEPT !.cursor = CursorUp(m.cursor, m.currentView),
              !.viewport = ViewportUpdate(m.viewport, msg)]
  ELSE IF c = "Down" THEN
    [m EXCEPT !.cursor = CursorDown(m.cursor, Len(m.fileNames),
                                    m.currentView),
              !.viewport = ViewportUpdate(m.viewport, msg)]
  ELSE IF c = "Top" THEN
    [m EXCEPT !.viewport = ViewportUpdate(GotoTop(m.viewport), msg)]
  ELSE IF c = "Enter" /\ m.currentView = fileListView THEN
    IF IndexPanics(m.fileNames, m.cursor) \/ SlicePanics(env.read)
    THEN [m EXCEPT !.session = "panicked"]
    ELSE
      [m EXCEPT !.fileContent = EnterFileContent(env.read),
                !.selectedFileName =
                  EnterSelectedFileName(env.read,
                                        Index(m.fileNames, m.cursor),
                                        m.selectedFileName),
                !.currentView = fileContentView,
                !.viewport =
                  ViewportUpdate(
                    EnterViewport(m.viewport, EnterFileContent(env.read),
                                  env.fails), msg)]
  ELSE IF c = "Back" THEN
    [m EXCEPT !.currentView = BackView(m.currentView),
              !.viewport =
                ViewportUpdate(BackViewport(m.viewport, m.currentView),
                               msg)]
  ELSE [m EXCEPT !.viewport = ViewportUpdate(m.viewport, msg)]

\* the Model teaHandler builds for a new connection
NewModel(names, height) ==
  [ZeroModel EXCEPT !.session = "running", !.fileNames = names,
                    !.terminalHeight = height]

\* the messages the two-session specification feeds a session: the
\* tracked one moves the cursor, opens and closes documents, scrolls,
\* resizes and quits; the other one moves the cursor, opens a document,
\* scrolls and resizes
SessionKeys(i) ==
  IF i = Tracked THEN {"down", "enter", "esc", "q"} ELSE {"down", "enter"}
SessionMsgs(i) == {KeyMsg(k) : k \in SessionKeys(i)} \cup {WindowSizeMsg}

\* the file read of an Enter: the whole document (no read is made when the
\* index panics first)
SessionReads(m) ==
  IF IndexPanics(m.fileNames, m.cursor)
  THEN {[err |-> TRUE, content |-> <<>>]}
  ELSE {r \in ReadOutcomes(Index(m.fileNames, m.cursor)) :
          ~r.err /\ r.content =
                      FileText(Index(m.fileNames, m.cursor), MaxFileLines)}

\* what a call of Update takes from outside the Model.  The two sessions
\* have terminals of different sizes; a render of the tracked one may fail.
SessionEnvs(i, m) ==
  IF i = Tracked
  THEN [read : SessionReads(m), fails : BOOLEAN, w : {InitWindow.Width},
        h : {InitWindow.Height}]
  ELSE [read : SessionReads(m), fails : {FALSE},
        w : {InitWindow.Width \div 2}, h : {InitWindow.Height - 1}]

\* the listings a connection of the two-session specification may get: no
\* document, or all of them
SessionListings == {l \in Listings : Len(l) \in {0, MaxDocs}}

singleVars == <<session, fatalMsg, setup, window, fileNames, cursor, ready,
                viewport, currentView, selectedFileName, fileContent,
                terminalHeight, helpWidth, lastMsg, lastEnter>>

\* the Model of the single-session program
SingleModel ==
  [session |-> session, fileNames |-> fileNames, cursor |-> cursor,
   ready |-> ready, viewport |-> viewport, currentView |-> currentView,
   selectedFileName |-> selectedFileName, fileContent |-> fileContent,
   terminalHeight |-> terminalHeight, helpWidth |-> helpWidth]

\* the single-session program, on its own, runs teaHandler with the
\* outcomes the tracked connection's teaHandler had
AloneConnect(names, active, listErr, catErr, qrErr) ==
  /\ teaHandler
  /\ setup' = [done |-> TRUE, active |-> active, listErr |-> listErr,
               catErr |-> catErr, qrErr |-> qrErr]
  /\ session' = "running" => fileNames' = names

\* the case of Update's switch a message is dispatched to
MsgCase(msg) == IF msg.type = "KeyMsg" THEN KeyCase(msg.key) ELSE msg.type

\* the single-session program, on its own, handles the message the tracked
\* connection's program handles, with the same resize geometry, the same
\* read and the same render outcome
AloneEvent(msg, env) ==
  /\ lastMsg' = msg
  /\ \/ MsgCase(msg) = "Quit" /\ UpdateQuit
     \/ MsgCase(msg) = "Up" /\ UpdateUp
     \/ MsgCase(msg) = "Down" /\ UpdateDown
     \/ MsgCase(msg) = "Top" /\ UpdateTop
     \/ MsgCase(msg) = "Enter" /\ UpdateEnter
     \/ MsgCase(msg) = "Back" /\ UpdateBack
     \/ MsgCase(msg) \in {"none", "MouseMsg"} /\ UpdateOther
     \/ MsgCase(msg) = "WindowSizeMsg" /\ UpdateWindowSize
  /\ MsgCase(msg) = "WindowSizeMsg"
       => window' = [Width |-> env.w, Height |-> env.h]
  /\ (/\ MsgCase(msg) = "Enter"
      /\ currentView = fileListView
      /\ ~IndexPanics(fileNames, cursor))
       => /\ lastEnter'.read = (IF env.read.err THEN "error" ELSE "ok")
          /\ SlicePanics(env.read) <=> session' = "panicked"
          /\ session' # "panicked"
               => /\ lastEnter'.renderErr = env.fails
                  /\ fileContent' = EnterFileContent(env.read)

\* bm.Middleware(teaHandler): teaHandler returns for an accepted connection,
\* which gets a Model of its own.  It can return while main is in
\* s.Shutdown, not after main has returned.
SessionConnect ==
  \E i \in SessionIds, names \in SessionListings, active \in BOOLEAN,
     listErr \in BOOLEAN, catErr \in BOOLEAN, qrErr \in BOOLEAN :
    /\ server.status # "stopped"
    /\ server.sessions[i].session = "connecting"
    /\ server' =
         [server EXCEPT
            !.sessions[i] =
              IF SetupError(active, listErr, catErr, qrErr) # ""
              THEN [ZeroModel EXCEPT !.session = "fatal"]
              ELSE NewModel(names, InitWindow.Height),
            !.actor = i]
    /\ IF i = Tracked
       THEN AloneConnect(names, active, listErr, catErr, qrErr)
       ELSE UNCHANGED singleVars

\* mutant: the cursor is one package-level variable all sessions write
SessionEventSharedCursor ==
  \E i \in SessionIds :
    /\ server.status # "stopped"
    /\ server.sessions[i].session \in LiveStates
    /\ \E msg \in SessionMsgs(i), env \in SessionEnvs(i, server.sessions[i]) :
         LET m == ModelUpdate(server.sessions[i], msg, env) IN
         /\ server' =
              [server EXCEPT
                 !.sessions =
                   [j \in SessionIds |->
                      IF j = i THEN m
                      ELSE [server.sessions[j] EXCEPT !.cursor = m.cursor]],
                 !.actor = i]
         /\ IF i = Tracked THEN AloneEvent(msg, env)
            ELSE UNCHANGED singleVars

\* the program of session i handles one message: Update runs on that
\* session's Model and the program keeps the Model it returns
SessionEvent ==
  \E i \in SessionIds :
    /\ server.status # "stopped"
    /\ server.sessions[i].session \in LiveStates
    /\ \E msg \in SessionMsgs(i), env \in SessionEnvs(i, server.sessions[i]) :
         /\ server' =
              [server EXCEPT
                 !.sessions[i] = ModelUpdate(@, msg, env),
                 !.actor = i]
         /\ IF i = Tracked THEN AloneEvent(msg, env)
            ELSE UNCHANGED singleVars

\* the message of session i's tea.Quit command reaches its event loop
SessionQuit ==
  \E i \in SessionIds :
    /\ server.status # "stopped"
    /\ server.sessions[i].session = "quitting"
    /\ server' = [server EXCEPT !.sessions[i].session = "quit", !.actor = i]
    /\ IF i = Tracked THEN QuitDelivered ELSE UNCHANGED singleVars

\* the client of session i disconnects
SessionDisconnect ==
  \E i \in SessionIds :
    /\ server.status # "stopped"
    /\ server.sessions[i].session \in LiveStates
    /\ server' = [server EXCEPT !.sessions[i].session = "closed",
                                !.actor = i]
    /\ IF i = Tracked THEN SessionClosed ELSE UNCHANGED singleVars

\* main receives a signal (or ListenAndServe fails) and calls s.Shutdown:
\* the server accepts no connection any more, the sessions it has still
\* run.  This is a step of the server, no session is its actor.
ServerShutdown ==
  /\ server.status = "serving"
  /\ server' = [server EXCEPT !.status = "stopping", !.actor = ""]
  /\ UNCHANGED singleVars

\* the status of a session once the process has ended
ShutdownStatus(st) == IF st \in LiveStates THEN "closed" ELSE st

\* s.Shutdown returns, when the last session has ended or when its context
\* times out, and main returns: the process ends and with it every program
\* still running
ServerExit ==
  /\ server.status = "stopping"
  /\ server' =
       [server EXCEPT
          !.status = "stopped",
          !.sessions =
            [i \in SessionIds |->
               [server.sessions[i] EXCEPT !.session = ShutdownStatus(@)]],
          !.actor = ""]
  /\ IF server.sessions[Tracked].session \in LiveStates
     THEN SessionClosed ELSE UNCHANGED singleVars

NextTwo ==
  \/ SessionConnect
  \/ SessionEvent
  \/ SessionQuit
  \/ SessionDisconnect
  \/ ServerShutdown
  \/ ServerExit

\* the server has accepted two connections; teaHandler has returned for
\* neither
SpecTwo == Init /\ [][NextTwo]_vars

\* ================================================================== claims
\* an Update step that dispatched a key to the named case of the switch
KeyStep(kind) ==
  /\ Live
  /\ lastMsg'.type = "KeyMsg"
  /\ KeyCase(lastMsg'.key) = kind

InListView == currentView = fileListView
InContentView == currentView = fileContentView

CursorInRange == 0 <= cursor /\ cursor < Max(1, Len(fileNames))

\* C1 as stated: the cursor stays in 0 .. max(1, len)-1, Up in the list view
\* sets it to max(0, cursor-1) and Down to min(len-1, cursor+1).  With an
\* empty list the Down formula gives -1 while the code keeps the cursor at 0.
C1_AsStated ==
  /\ []CursorInRange
  /\ [][/\ (KeyStep("Up") /\ InListView) => cursor' = Max(0, cursor - 1)
        /\ (KeyStep("Down") /\ InListView)
             => cursor' = Min(Len(fileNames) - 1, cursor + 1)]_vars

\* C1 amended: the cursor stays in 0 .. max(1, len)-1 in every state; Up in
\* the list view sets it to max(0, cursor-1) and Down sets it to
\* min(max(0, len-1), cursor+1), which leaves it at 0 on an empty list.
C1_CursorBounds ==
  /\ []CursorInRange
  /\ [][/\ (KeyStep("Up") /\ InListView) => cursor' = Max(0, cursor - 1)
        /\ (KeyStep("Down") /\ InListView)
             => cursor' = Min(Max(0, Len(fileNames) - 1), cursor + 1)]_vars

\* Down has moved the cursor to the last document of a two-document list
C1_Witness ==
  /\ session = "running"
  /\ lastMsg = KeyMsg("down")
  /\ InListView
  /\ Len(fileNames) = 2
  /\ cursor = 1

\* C2 as stated: with an empty list, Enter, Up and Down in the list view
\* change nothing and the session keeps running.  Enter indexes
\* m.fileNames[m.cursor] without a length check and panics.
C2_EmptyListNoOp ==
  [][(/\ Len(fileNames) = 0
      /\ InListView
      /\ (KeyStep("Enter") \/ KeyStep("Up") \/ KeyStep("Down")))
       => (session' = session /\ UNCHANGED modelVars)]_vars

\* C3: while a document is open the cursor is the one Enter was pressed at,
\* whatever keys, mouse or resize events arrive, and Back returns to the
\* list view with that cursor.
C3_EnterBackKeepsCursor ==
  /\ [](InContentView => cursor = lastEnter.cursor)
  /\ [][(KeyStep("Back") /\ InContentView)
          => (currentView' = fileListView /\ cursor' = lastEnter.cursor
              /\ session' = session)]_vars

\* Back has closed the document opened at cursor 1 after the viewport was
\* scrolled and resized in between
C3_Witness ==
  /\ session = "running"
  /\ lastMsg = KeyMsg("esc")
  /\ InListView
  /\ lastEnter.cursor = 1
  /\ lastEnter.read = "ok"
  /\ cursor = 1
  /\ ready

\* an Enter handled in the list view on a valid cursor
EnterStep == KeyStep("Enter") /\ InListView /\ ~IndexPanics(fileNames, cursor)

\* C4 as stated: Enter in the list view on a readable document opens the
\* content view with selectedFileName = fileNames[cursor] and YOffset = 0.
\* A readable document with fewer than two lines panics in the slice [2:].
C4_EnterSelectsCursor ==
  [][(EnterStep /\ lastEnter'.read = "ok")
       => /\ session' = session
          /\ currentView' = fileContentView
          /\ selectedFileName' = Index(fileNames, cursor)
          /\ viewport'.YOffset = 0]_vars

\* C5: an Enter whose read fails stores the placeholder "Error reading
\* file" as the content, opens the content view and leaves the session
\* running.
C5_ReadFailurePlaceholder ==
  [][(EnterStep /\ lastEnter'.read = "error")
       => /\ fileContent' = <<"Error reading file">>
          /\ currentView' = fileContentView
          /\ session' = session]_vars

\* a failed read on the second document, shown in the content view
C5_Witness ==
  /\ session = "running"
  /\ lastMsg = KeyMsg("enter")
  /\ lastEnter = [cursor |-> 1, read |-> "error", renderErr |-> FALSE]
  /\ InContentView
  /\ fileContent = <<"Error reading file">>

\* C6 as stated: an Enter whose render fails leaves the placeholder "Error
\* parsing markdown" as the viewport's content and opens the content view.
\* The second SetContent overwrites the placeholder with the failed
\* render's empty output.
C6_RenderFailurePlaceholder ==
  [][(EnterStep /\ lastEnter'.renderErr)
       => /\ viewport'.lines = << <<"Error parsing markdown">> >>
          /\ currentView' = fileContentView]_vars

\* the session state an Up or Down key in the content view leaves alone
exceptYOffset ==
  <<fileNames, cursor, ready, currentView, selectedFileName, fileContent,
    terminalHeight, helpWidth, viewport.Width, viewport.Height,
    viewport.YPosition, viewport.lines>>

contentOverflow == Max(0, Len(viewport.lines) - viewport.Height)

\* C7 as stated: Up, Down and Enter in the content view change nothing,
\* the viewport's YOffset included.  Up and Down reach the viewport's own
\* key map through m.viewport.Update and scroll it.
C7_AsStated ==
  [][(InContentView /\ (KeyStep("Up") \/ KeyStep("Down") \/ KeyStep("Enter")))
       => UNCHANGED modelVars]_vars

\* C7 amended: in the content view Enter changes nothing; Up and Down
\* change nothing but the viewport's YOffset, which they scroll by one
\* line when the viewport holds lines: Down to YOffset+1 while below the
\* last page, Up to YOffset-1 (capped at the last page) while above the
\* first line.
C7_ContentViewKeys ==
  [][/\ (InContentView /\ KeyStep("Enter")) => UNCHANGED modelVars
     /\ (InContentView /\ KeyStep("Down"))
          => /\ UNCHANGED exceptYOffset
             /\ viewport'.YOffset =
                  IF viewport.lines # <<>> /\ viewport.YOffset < contentOverflow
                  THEN viewport.YOffset + 1 ELSE viewport.YOffset
     /\ (InContentView /\ KeyStep("Up"))
          => /\ UNCHANGED exceptYOffset
             /\ viewport'.YOffset =
                  IF viewport.lines # <<>> /\ viewport.YOffset > 0
                  THEN Min(viewport.YOffset - 1, contentOverflow)
                  ELSE viewport.YOffset]_vars

\* Down has scrolled an open document to its second line
C7_Witness ==
  /\ session = "running"
  /\ InContentView
  /\ lastMsg = KeyMsg("j")
  /\ viewport.YOffset = 1
  /\ cursor = lastEnter.cursor

\* C8: once a Resize has been handled, in either view and after any later
\* event, the viewport's Height is the terminal's current height minus the
\* header's and the footer's height.
C8_ViewportHeightTracksWindow ==
  ready => viewport.Height = window.Height - headerHeight - footerHeight

\* Back has closed a document opened after the terminal was resized to
\* its smallest height: the view changed twice with no Resize in between
C8_Witness ==
  /\ session = "running"
  /\ ready
  /\ window.Height = 0
  /\ lastMsg = KeyMsg("esc")
  /\ lastEnter.read = "ok"
  /\ InListView
  /\ viewport.lines # <<>>

\* C9 as stated: after the first Resize, 0 <= YOffset <= max(0, number of
\* content lines - Height) in every state.  A Resize of a ready viewport
\* assigns Width and Height and leaves YOffset where the user scrolled it.
C9_YOffsetInRange ==
  ready => /\ 0 <= viewport.YOffset
           /\ viewport.YOffset
                <= Max(0, Len(viewport.lines) - viewport.Height)

\* C10 as stated: a key bound to Quit is handled before any other key, in
\* either view, ready or not, and changes no session state; after it no
\* further event is applied to the session, and once the session has ended
\* nothing changes.  Update only returns the command tea.Quit: a message
\* that reaches the event loop before the command's message is still
\* handled.
C10_QuitEndsSession ==
  /\ [][\A k \in {"q", "ctrl+c"} :
          (Live /\ lastMsg' = KeyMsg(k))
            => (session' = "quitting" /\ UNCHANGED modelVars)]_vars
  /\ [][session = "quitting"
          => (session' \in {"quitting", "quit", "closed"}
              /\ UNCHANGED modelVars)]_vars
  /\ [][session \notin {"quit", "closed", "panicked", "fatal"}]_vars

\* teaHandler has run and one of its setup steps failed
SetupFailed ==
  setup.done /\ (~setup.active \/ setup.listErr \/ setup.catErr \/ setup.qrErr)

C12_SetupFatalOrFreshModel ==
  /\ [](SetupFailed
          => /\ session = "fatal"
             /\ fatalMsg # ""
             /\ lastMsg = [type |-> "", key |-> ""]
             /\ fileNames = <<>> /\ terminalHeight = 0)
  /\ [][session = "connecting" /\ session' # "connecting"
          => IF SetupFailed' THEN session' = "fatal"
             ELSE /\ session' = "running"
                  /\ fatalMsg' = ""
                  /\ currentView' = fileListView
                  /\ cursor' = 0
                  /\ ~ready'
                  /\ selectedFileName' = ""
                  /\ terminalHeight' = window.Height]_vars

\* the listing fetch failed on a connection that has a terminal
C12_Witness ==
  /\ session = "fatal"
  /\ setup.done /\ setup.active /\ setup.listErr
  /\ fatalMsg = "can't read directory"

\* a <= b for fractions with positive denominators
FracLeq(a, b) == a.num * b.den <= b.num * a.den

\* the viewport scrolled to offset y, everything else as it is
ScrolledTo(y) == [viewport EXCEPT !.YOffset = y]

ContentFits == Len(viewport.lines) <= viewport.Height
DocumentFits == viewport.lines # <<>> /\ ContentFits

ScrollPercentMonotonicInRange ==
  /\ FracLeq([num |-> 0, den |-> 1], ScrollPercent(viewport))
  /\ FracLeq(ScrollPercent(viewport), [num |-> 1, den |-> 1])
  /\ \A y \in 0..(Len(viewport.lines) + 1) :
       FracLeq(ScrollPercent(ScrolledTo(y)), ScrollPercent(ScrolledTo(y + 1)))

\* C13 as stated: the scroll percentage is non-decreasing in YOffset, lies
\* in [0, 1] and is 0 when the content fits in the viewport, so the footer
\* prints 0%.  viewport.ScrollPercent returns 1 when Height >= len(lines)
\* and the footer of a document that fits prints 100%.
C13_AsStated ==
  Live
    => /\ ScrollPercentMonotonicInRange
       /\ DocumentFits
            => /\ ScrollPercent(viewport).num = 0
               /\ FooterPercent(viewport) = 0

\* C14: in the content view of a sized session the header line and the
\* footer's rule line are exactly as wide as the terminal whenever the
\* terminal is at least as wide as the line's label (the file name, empty
\* or not, resp. the percentage), the rule being max(0, width - label
\* width) columns.
C14_HeaderFooterWidth ==
  (Live /\ ready /\ InContentView)
    => /\ HeaderView(selectedFileName, viewport).line
            = Max(0, window.Width - Len(selectedFileName))
       /\ FooterInfo(viewport).line = Max(0, window.Width - 4)
       /\ window.Width >= Len(selectedFileName)
            => HeaderViewWidth(selectedFileName, viewport) = window.Width
       /\ window.Width >= 4
            => FooterInfoWidth(viewport) = window.Width

\* a named document open in a terminal wider than its name, after the
\* terminal was resized from a narrower width
C14_Witness ==
  /\ session = "running"
  /\ ready
  /\ InContentView
  /\ lastMsg = [type |-> "WindowSizeMsg", key |-> ""]
  /\ selectedFileName # ""
  /\ window.Width > Len(selectedFileName)
  /\ viewport.YOffset > 0

\* C15: Back in the content view returns to the list view with YOffset 0
\* and the content, the selected file and the cursor as they were; Back
\* in the list view changes nothing.
C15_BackEffect ==
  [][/\ (KeyStep("Back") /\ InContentView)
          => /\ currentView' = fileListView
             /\ viewport'.YOffset = 0
             /\ viewport'.lines = viewport.lines
             /\ UNCHANGED <<fileContent, selectedFileName, cursor, fileNames,
                            ready, terminalHeight, helpWidth>>
     /\ (KeyStep("Back") /\ InListView)
          => UNCHANGED modelVars]_vars

\* Back has closed a document that had been scrolled down
C15_Witness ==
  /\ session = "running"
  /\ lastMsg = KeyMsg("esc")
  /\ InListView
  /\ lastEnter.read = "ok"
  /\ viewport.YOffset = 0
  /\ Len(viewport.lines) > viewport.Height + 1
  /\ viewport.Height > 0

\* an Update step that handled a WindowSizeMsg
ResizeStep == Live /\ lastMsg'.type = "WindowSizeMsg"

\* C16: ready is false when the Model is constructed, no key or mouse
\* event changes it, the first Resize sets it together with a new viewport
\* of the message's size, and it never becomes false again.
C16_ReadyLatch ==
  /\ [](session = "connecting" => ~ready)
  /\ [][/\ ~ResizeStep => ready' = ready
        /\ ResizeStep => ready'
        /\ (ResizeStep /\ ~ready)
             => /\ viewport'.Width = window'.Width
                /\ viewport'.Height
                     = window'.Height - headerHeight - footerHeight
                /\ viewport'.YOffset = 0
        /\ ready => ready']_vars

\* a key handled after the first Resize finds the Model still ready
C16_Witness ==
  /\ session = "running"
  /\ ready
  /\ lastMsg = KeyMsg("enter")
  /\ InContentView

\* C17 as stated: Enter on a readable document of any length, an empty one
\* or one shorter than the two metadata lines included, drops the first
\* two lines (leaving the empty string when nothing remains), opens the
\* content view and keeps the session running.  The slice [2:] of fewer
\* than two segments panics.
C17_ShortDocumentSafe ==
  [][(EnterStep /\ lastEnter'.read = "ok")
       => /\ session' = session
          /\ currentView' = fileContentView
          /\ \E n \in 0..MaxFileLines :
               fileContent' =
                 StringsJoin([i \in 1..(n - 2) |->
                   <<Index(fileNames, cursor) \o "#" \o ToString(i + 2)>>])]_vars

\* C18 as stated: the stored terminal height is the height of the most
\* recent Resize, or the connection's initial geometry when there was
\* none.  Update never assigns m.terminalHeight.
C18_TerminalHeightTracksResize ==
  Live => terminalHeight = window.Height

\* C19 as stated: in the content view the selected file name, the raw
\* content and the viewport's lines all belong to the document at the
\* cursor.  A failed read replaces the content and keeps the previous
\* selectedFileName.
C19_SelectionConsistent ==
  (Live /\ InContentView)
    => /\ selectedFileName = Index(fileNames, cursor)
       /\ \/ fileContent = <<"Error reading file">>
          \/ \E n \in 2..MaxFileLines :
               fileContent =
                 StringsJoin([i \in 1..(n - 2) |->
                   <<selectedFileName \o "#" \o ToString(i + 2)>>])
       /\ \/ viewport.lines = << <<"Error parsing markdown">> >>
          \/ viewport.lines =
               StringsSplit(<<"\n">> \o
                 [i \in 1..Len(fileContent) |->
                    IF fileContent[i] = "\n" THEN "\n"
                    ELSE "*" \o fileContent[i]] \o <<"\n">>)

\* C20 as stated: a Resize, the first one included, leaves the viewport's
\* content as the last Enter set it.  The first Resize replaces the
\* viewport by viewport.New, which holds no lines.
C20_ResizeKeepsContent ==
  [][(ResizeStep /\ InContentView) => viewport'.lines = viewport.lines]_vars

====
